---- MODULE Spec2Model ----
(***************************************************************************)
(* Model of obfuscator/peek_reader.py: the Address grammar, the RenameMap, *)
(* the module path renamer, the import synthesizer and the target          *)
(* pipeline.                                                               *)
(*                                                                         *)
(* A Python str is modelled as a sequence of one-character strings, so     *)
(* that split, join, removesuffix and the address pattern are computed     *)
(* character by character, as the code computes them.                      *)
(***************************************************************************)
EXTENDS Integers, Sequences, FiniteSets, TLC

VARIABLES
    pc,          \* position of the driver: which step of the run comes next
    text,        \* Address: the string being parsed / last serialized
    address,     \* Address: the parsed Address (or NoAddress)
    prev_text,   \* Address: the string the last from_str call was given
    passes,      \* Address: number of from_str calls made so far
    _map,        \* RenameMap._map: original key -> pseudonym
    gen_log,     \* every gen_name() invocation so far: [key, name], in order
    call_log,    \* every assign_name call so far: [key, ret], in order
    api_log,     \* RenameMap driver: the calls made so far: [op, arg, ret]
    peek_json,   \* pipeline: the records json.load returned
    peek_data,   \* pipeline: the TargetInfo list load_peek_data returned
    idx,         \* pipeline: position of rename_python_targets in peek_data
    renamed,     \* pipeline: the TargetWithContent list built so far
    trace_log,   \* pipeline: per output, its input's position and the order in
                 \* which its inferred_deps set was iterated
    files,       \* pipeline: path -> text written by write_python_targets
    deps,        \* render_imports: the deps it was given
    pos,         \* render_imports: number of deps consumed so far
    seen_imports,\* render_imports: the Counter
    lines        \* render_imports: the lines yielded so far

addressVars == <<text, address, prev_text, passes>>
mapVars == <<_map, gen_log, call_log>>
pipeVars == <<peek_json, peek_data, idx, renamed, trace_log, files>>
renderVars == <<deps, pos, seen_imports, lines>>

vars == <<pc, addressVars, mapVars, api_log, pipeVars, renderVars>>

----------------------------------------------------------------------------
(* Python str primitives                                                   *)

\* s[i:] of Python, 1-based: the characters of s from position i on
From(s, i) == SubSeq(s, i, Len(s))

\* str.removesuffix(suf)
RemoveSuffix(s, suf) ==
    IF Len(suf) > 0 /\ Len(s) >= Len(suf) /\ From(s, Len(s) - Len(suf) + 1) = suf
    THEN SubSeq(s, 1, Len(s) - Len(suf))
    ELSE s

\* positions of character c in s
Positions(s, c) == {i \in 1..Len(s) : s[i] = c}

Min(S) == CHOOSE x \in S : \A y \in S : x <= y
Max(S) == CHOOSE x \in S : \A y \in S : x >= y

\* str.split(c): never the empty list; "".split("/") is [""]
RECURSIVE Split(_, _)
Split(s, c) ==
    IF Positions(s, c) = {}
    THEN <<s>>
    ELSE LET i == Min(Positions(s, c))
         IN  <<SubSeq(s, 1, i - 1)>> \o Split(From(s, i + 1), c)

\* c.join(parts)
RECURSIVE Join(_, _)
Join(parts, c) ==
    IF parts = <<>> THEN <<>>
    ELSE IF Len(parts) = 1 THEN parts[1]
    ELSE parts[1] \o <<c>> \o Join(Tail(parts), c)

\* str(n) for a natural number n
Digit(d) == CASE d = 0 -> "0" [] d = 1 -> "1" [] d = 2 -> "2" [] d = 3 -> "3"
              [] d = 4 -> "4" [] d = 5 -> "5" [] d = 6 -> "6" [] d = 7 -> "7"
              [] d = 8 -> "8" [] d = 9 -> "9"

RECURSIVE IntToStr(_)
IntToStr(n) ==
    IF n < 10 THEN <<Digit(n)>> ELSE IntToStr(n \div 10) \o <<Digit(n % 10)>>

PY == <<".", "p", "y">>
DUNDER_INIT == <<"_", "_", "i", "n", "i", "t", "_", "_">>
DUNDER_MAIN == <<"_", "_", "m", "a", "i", "n", "_", "_">>

----------------------------------------------------------------------------
(* Address                                                                 *)

\* s.rsplit("/", 1)[-1]
last_path_part(s) ==
    IF Positions(s, "/") = {} THEN s ELSE From(s, Max(Positions(s, "/")) + 1)

\* the character class [^:#] of capture_pattern
InClass(ch) == ch \notin {":", "#"}

\* last position of the greedy run [^:#]* that starts at position i (i - 1 when
\* the run is empty)
RECURSIVE RunEnd(_, _)
RunEnd(s, i) ==
    IF i > Len(s) \/ ~InClass(s[i]) THEN i - 1 ELSE RunEnd(s, i + 1)

NoAddress == [ok |-> FALSE, path |-> <<>>, name |-> <<>>, subtarget |-> <<>>]

MkAddress(path, name, subtarget) ==
    [ok |-> TRUE, path |-> path, name |-> name, subtarget |-> subtarget]

\* capture_pattern.match(s): the optional "//" is taken when a path can follow
\* it, otherwise the match is retried without it; path is the greedy run
\* [^:#]+; the name and subtarget groups are optional and each needs at least
\* one character.  A group that did not take part is None, modelled as <<>>
\* (a group that takes part is never empty).  ok = FALSE is m is None.
capture_match(s) ==
    LET rooted == Len(s) >= 2 /\ s[1] = "/" /\ s[2] = "/" /\ RunEnd(s, 3) >= 3
        ps     == IF rooted THEN 3 ELSE 1
        pe     == RunEnd(s, ps)
        hasN   == pe + 1 <= Len(s) /\ s[pe + 1] = ":" /\ RunEnd(s, pe + 2) >= pe + 2
        ne     == IF hasN THEN RunEnd(s, pe + 2) ELSE pe
        hasS   == ne + 1 <= Len(s) /\ s[ne + 1] = "#" /\ RunEnd(s, ne + 2) >= ne + 2
    IN  IF pe < ps
        THEN NoAddress
        ELSE MkAddress(SubSeq(s, ps, pe),
                       IF hasN THEN SubSeq(s, pe + 2, ne) ELSE <<>>,
                       IF hasS THEN SubSeq(s, ne + 2, RunEnd(s, ne + 2)) ELSE <<>>)

\* Address.from_str: ok = FALSE is the ValueError
from_str(s) ==
    LET m == capture_match(s)
    IN  IF ~m.ok THEN NoAddress
        ELSE MkAddress(m.path,
                       IF m.name = <<>> \/ m.name = last_path_part(m.path)
                       THEN <<>> ELSE m.name,
                       m.subtarget)

\* Address.__str__
address_str(a) ==
    LET path      == IF a.path = <<>> THEN <<"/", "/">> ELSE a.path
        name      == IF a.name = <<>> THEN last_path_part(a.path) ELSE a.name
        subtarget == IF a.subtarget = <<>> THEN <<>> ELSE <<"#">> \o a.subtarget
    IN  path \o <<":">> \o name \o subtarget

\* the variables a driver does not use, at rest
AddressIdle == text = <<>> /\ address = NoAddress /\ prev_text = <<>> /\ passes = 0
MapIdle == _map = <<>> /\ gen_log = <<>> /\ call_log = <<>> /\ api_log = <<>>
PipeIdle ==
    /\ peek_json = <<>> /\ peek_data = <<>> /\ idx = 0
    /\ renamed = <<>> /\ trace_log = <<>> /\ files = <<>>
RenderIdle == deps = <<>> /\ pos = 0 /\ seen_imports = <<>> /\ lines = <<>>

----------------------------------------------------------------------------
(* Driver of the Address round trip: parse, serialize, parse, serialize    *)

MaxLen == 5
MaxPasses == 2

AddressAlphabet == {"/", ":", "#", "a"}

AddressStrings == UNION {[1..n -> AddressAlphabet] : n \in 0..MaxLen}

InitAddress ==
    /\ pc = "parse"
    /\ text \in AddressStrings
    /\ address = NoAddress
    /\ prev_text = <<>>
    /\ passes = 0
    /\ MapIdle /\ PipeIdle /\ RenderIdle

\* Address.from_str(text) returns
ParseOk ==
    /\ pc = "parse"
    /\ passes < MaxPasses
    /\ from_str(text).ok
    /\ address' = from_str(text)
    /\ prev_text' = text
    /\ passes' = passes + 1
    /\ pc' = "serialize"
    /\ UNCHANGED <<text, mapVars, api_log, pipeVars, renderVars>>

\* Address.from_str(text) raises ValueError
ParseError ==
    /\ pc = "parse"
    /\ passes < MaxPasses
    /\ ~from_str(text).ok
    /\ pc' = "error"
    /\ prev_text' = text
    /\ passes' = passes + 1
    /\ UNCHANGED <<text, address, mapVars, api_log, pipeVars, renderVars>>

\* str(address)
Serialize ==
    /\ pc = "serialize"
    /\ text' = address_str(address)
    /\ pc' = "parse"
    /\ UNCHANGED <<address, prev_text, passes, mapVars, api_log, pipeVars, renderVars>>

NextAddress == ParseOk \/ ParseError \/ Serialize

SpecAddress == InitAddress /\ [][NextAddress]_vars

----------------------------------------------------------------------------
(* RenameMap                                                               *)

\* The state of one RenameMap while a call runs: its _map, the log of
\* gen_name() invocations, the log of assign_name calls, and how many names
\* the call has drawn from the generator so far.
MapState(m, g, c) == [map |-> m, gen |-> g, calls |-> c, used |-> 0]

\* A name the oracle holds no entry for (only a call that draws more names
\* than it has new keys gets there).
SpareName == <<"S">>

\* gen_name(): the i-th name the generator returns during the current call.
\* What it returns is the generator's choice: tape is that choice.
gen_name(tape, i) == IF i \in DOMAIN tape THEN tape[i] ELSE SpareName

\* a RenameMap.assign_name that draws a new name on every call
assign_name_always_generates(st, key, tape) ==
    LET name == gen_name(tape, st.used + 1)
    IN  [st  |-> [map   |-> [k \in (DOMAIN st.map) \cup {key} |->
                                IF k = key THEN name ELSE st.map[k]],
                  gen   |-> Append(st.gen, [key |-> key, name |-> name]),
                  calls |-> Append(st.calls, [key |-> key, ret |-> name]),
                  used  |-> st.used + 1],
         ret |-> name]

\* RenameMap.assign_name
assign_name(st, key, tape) ==
    IF key \in DOMAIN st.map
    THEN [st  |-> [st EXCEPT !.calls = Append(@, [key |-> key, ret |-> st.map[key]])],
          ret |-> st.map[key]]
    ELSE LET name == gen_name(tape, st.used + 1)
         IN  [st  |-> [map   |-> [k \in (DOMAIN st.map) \cup {key} |->
                                     IF k = key THEN name ELSE st.map[k]],
                       gen   |-> Append(st.gen, [key |-> key, name |-> name]),
                       calls |-> Append(st.calls, [key |-> key, ret |-> name]),
                       used  |-> st.used + 1],
              ret |-> name]

\* RenameMap.assign_many: tuple(map(self.assign_name, keys))
RECURSIVE assign_many(_, _, _)
assign_many(st, keys, tape) ==
    IF keys = <<>>
    THEN [st |-> st, ret |-> <<>>]
    ELSE LET first == assign_name(st, keys[1], tape)
             rest  == assign_many(first.st, Tail(keys), tape)
         IN  [st |-> rest.st, ret |-> <<first.ret>> \o rest.ret]

----------------------------------------------------------------------------
(* Module path renamer                                                     *)

ReservedLeaves == {DUNDER_INIT, DUNDER_MAIN}

\* path.removesuffix(".py").split("/")
path_parts_of(path) == Split(RemoveSuffix(path, PY), "/")

Front(s) == SubSeq(s, 1, Len(s) - 1)
Last(s) == s[Len(s)]

\* a rename_python_module whose reserved-leaf branch forgets to put the leaf back
rename_python_module_drops_leaf(path, st, tape) ==
    LET path_parts == path_parts_of(path)
        r == IF Last(path_parts) \in ReservedLeaves
             THEN assign_many(st, Front(path_parts), tape)
             ELSE assign_many(st, path_parts, tape)
    IN  [st |-> r.st, ret |-> Join(r.ret, "/") \o PY]

\* a rename_python_module that renames the file name and forgets the directories
rename_python_module_leaf_only(path, st, tape) ==
    LET path_parts == <<Last(path_parts_of(path))>>
        r == IF Last(path_parts) \in ReservedLeaves
             THEN LET m == assign_many(st, Front(path_parts), tape)
                  IN  [st |-> m.st, ret |-> Append(m.ret, Last(path_parts))]
             ELSE assign_many(st, path_parts, tape)
    IN  [st |-> r.st, ret |-> Join(r.ret, "/") \o PY]

\* rename_python_module(path, rename_map)
rename_python_module(path, st, tape) ==
    LET path_parts == path_parts_of(path)
        r == IF Last(path_parts) \in ReservedLeaves
             THEN LET m == assign_many(st, Front(path_parts), tape)
                  IN  [st |-> m.st, ret |-> Append(m.ret, Last(path_parts))]
             ELSE assign_many(st, path_parts, tape)
    IN  [st |-> r.st, ret |-> Join(r.ret, "/") \o PY]

\* the keys a rename_python_module(path, ...) call passes to assign_many
keys_of_path(path) ==
    LET path_parts == path_parts_of(path)
    IN  IF Last(path_parts) \in ReservedLeaves THEN Front(path_parts) ELSE path_parts

Range(s) == {s[i] : i \in 1..Len(s)}

\* The generator's possible answers to a call that asks for the keys `keys`
\* while the map holds `m`: one name per key the map does not hold yet.
Oracles(keys, m, pool) ==
    [1..Cardinality(Range(keys) \ DOMAIN m) -> pool]

----------------------------------------------------------------------------
(* Driver of one RenameMap: any sequence of assign_name, assign_many and   *)
(* rename_python_module calls on the same map                              *)

MaxCalls == 3

\* names an injected gen_name may return: two pseudonyms and a reserved leaf
InjectedNames == {<<"X">>, <<"Y">>, DUNDER_INIT}

MapKeys == {<<"p">>, <<"a">>}

MapKeyLists == {<<<<"p">>, <<"a">>, <<"p">>>>, <<<<"a">>, <<"a">>>>}

MapPaths ==
    { <<"a", ".", "p", "y">>,
      <<"p", "/", "a", ".", "p", "y">>,
      <<"p", "/", "a">>,
      <<"a", "/", "p", ".", "p", "y">>,
      <<"p", "/", "p", "/", "a", ".", "p", "y">>,
      <<"p", "/">> \o DUNDER_INIT \o PY }

InitMap ==
    /\ pc = "calls"
    /\ _map = <<>>
    /\ gen_log = <<>>
    /\ call_log = <<>>
    /\ api_log = <<>>
    /\ AddressIdle /\ PipeIdle /\ RenderIdle

SetMap(st) ==
    /\ _map' = st.map
    /\ gen_log' = st.gen
    /\ call_log' = st.calls

Now == MapState(_map, gen_log, call_log)

\* rename_map.assign_name(key)
CallAssignName ==
    /\ pc = "calls"
    /\ Len(api_log) < MaxCalls
    /\ \E key \in MapKeys : \E tape \in Oracles(<<key>>, _map, InjectedNames) :
         LET r == assign_name(Now, key, tape)
         IN  /\ SetMap(r.st)
             /\ api_log' = Append(api_log, [op |-> "assign_name", arg |-> key, ret |-> r.ret])
    /\ UNCHANGED <<pc, addressVars, pipeVars, renderVars>>

\* rename_map.assign_many(keys)
CallAssignMany ==
    /\ pc = "calls"
    /\ Len(api_log) < MaxCalls
    /\ \E keys \in MapKeyLists : \E tape \in Oracles(keys, _map, InjectedNames) :
         LET r == assign_many(Now, keys, tape)
         IN  /\ SetMap(r.st)
             /\ api_log' = Append(api_log, [op |-> "assign_many", arg |-> keys, ret |-> r.ret])
    /\ UNCHANGED <<pc, addressVars, pipeVars, renderVars>>

\* rename_python_module(path, rename_map)
CallRenameModule ==
    /\ pc = "calls"
    /\ Len(api_log) < MaxCalls
    /\ \E path \in MapPaths : \E tape \in Oracles(keys_of_path(path), _map, InjectedNames) :
         LET r == rename_python_module(path, Now, tape)
         IN  /\ SetMap(r.st)
             /\ api_log' = Append(api_log, [op |-> "rename", arg |-> path, ret |-> r.ret])
    /\ UNCHANGED <<pc, addressVars, pipeVars, renderVars>>

NextMap == CallAssignName \/ CallAssignMany \/ CallRenameModule

SpecMap == InitMap /\ [][NextMap]_vars

----------------------------------------------------------------------------
(* Import synthesizer                                                      *)

KW_FROM == <<"f", "r", "o", "m", " ">>
KW_IMPORT == <<"i", "m", "p", "o", "r", "t", " ">>
KW_AS == <<" ", "a", "s", " ">>

\* Counter.__getitem__: a missing key counts 0
Count(seen, k) == IF k \in DOMAIN seen THEN seen[k] ELSE 0

\* One iteration of the for loop of render_imports, for dep, with the Counter
\* seen.  ok = FALSE is the ValueError; line = <<>> with ok is the continue.
render_step(dep, seen) ==
    LET parts == Split(RemoveSuffix(dep, PY), "/")
    IN  IF parts = <<>>
        THEN [ok |-> FALSE, seen |-> seen, yielded |-> FALSE, line |-> <<>>]
        ELSE LET froms   == Front(parts)
                 import_ == Last(parts)
                 from_   == Join(froms, ".")
                 n       == Count(seen, import_) + 1
                 alias   == import_ \o IntToStr(n)
             IN  IF import_ = DUNDER_INIT
                 THEN [ok |-> TRUE, seen |-> seen, yielded |-> FALSE, line |-> <<>>]
                 ELSE [ok      |-> TRUE,
                       seen    |-> [k \in (DOMAIN seen) \cup {import_} |->
                                       IF k = import_ THEN n ELSE seen[k]],
                       yielded |-> TRUE,
                       line    |-> IF from_ # <<>>
                                   THEN KW_FROM \o from_ \o <<" ">> \o KW_IMPORT
                                        \o import_ \o KW_AS \o alias
                                   ELSE KW_IMPORT \o import_ \o KW_AS \o alias]

\* render_imports(deps), run to exhaustion: the lines it yields, or ok = FALSE
\* when it raises
RECURSIVE render_rest(_, _, _)
render_rest(ds, i, seen) ==
    IF i > Len(ds)
    THEN [ok |-> TRUE, lines |-> <<>>]
    ELSE LET r    == render_step(ds[i], seen)
             rest == render_rest(ds, i + 1, r.seen)
         IN  IF ~r.ok THEN [ok |-> FALSE, lines |-> <<>>]
             ELSE [ok    |-> rest.ok,
                   lines |-> IF r.yielded THEN <<r.line>> \o rest.lines ELSE rest.lines]

render_imports(ds) == render_rest(ds, 1, <<>>)

----------------------------------------------------------------------------
(* Driver of render_imports: the generator is resumed once per dep         *)

MaxSameLeaf == 11
MaxOtherDeps == 2

RenderEdges ==
    { <<"n", ".", "p", "y">>,
      <<"d", "/", "n", "1", ".", "p", "y">>,
      <<"d", "/", "n">>,
      <<"d", "/">> \o DUNDER_INIT \o PY }

Repeat(x, n) == [i \in 1..n |-> x]

\* up to MaxSameLeaf edges d/n, then up to MaxOtherDeps edges of any kind
RenderInputs ==
    { Repeat(<<"d", "/", "n">>, n) \o t :
        n \in 0..MaxSameLeaf,
        t \in UNION {[1..k -> RenderEdges] : k \in 0..MaxOtherDeps} }

InitRender ==
    /\ pc = "render"
    /\ deps \in RenderInputs
    /\ pos = 0
    /\ seen_imports = <<>>
    /\ lines = <<>>
    /\ AddressIdle /\ MapIdle /\ PipeIdle

\* the loop body runs for the next dep and yields a line
RenderYield ==
    /\ pc = "render"
    /\ pos < Len(deps)
    /\ LET r == render_step(deps[pos + 1], seen_imports)
       IN  /\ r.ok /\ r.yielded
           /\ seen_imports' = r.seen
           /\ lines' = Append(lines, r.line)
    /\ pos' = pos + 1
    /\ UNCHANGED <<pc, deps, addressVars, mapVars, api_log, pipeVars>>

\* the loop body runs for the next dep and does not yield: continue, or raise
RenderSkipOrRaise ==
    /\ pc = "render"
    /\ pos < Len(deps)
    /\ LET r == render_step(deps[pos + 1], seen_imports)
       IN  /\ ~(r.ok /\ r.yielded)
           /\ pc' = IF r.ok THEN "render" ELSE "error"
    /\ pos' = pos + 1
    /\ UNCHANGED <<deps, seen_imports, lines, addressVars, mapVars, api_log, pipeVars>>

\* the deps are exhausted: StopIteration
RenderStop ==
    /\ pc = "render"
    /\ pos = Len(deps)
    /\ pc' = "rendered"
    /\ UNCHANGED <<renderVars, addressVars, mapVars, api_log, pipeVars>>

NextRender == RenderYield \/ RenderSkipOrRaise \/ RenderStop

SpecRender == InitRender /\ [][NextRender]_vars

----------------------------------------------------------------------------
(* TargetInfo and the handlers                                             *)

\* TargetInfo.from_dict.  An absent or null dependencies / dependencies_raw is
\* modelled as the empty sequence, which is what `or ()` turns it into.
\* ok = FALSE is the ValueError of Address.from_str.
from_dict(d) ==
    [ok               |-> from_str(d.address).ok,
     address          |-> from_str(d.address),
     target_type      |-> d.target_type,
     dependencies     |-> d.dependencies,
     dependencies_raw |-> d.dependencies_raw,
     other            |-> d.other]

\* load_peek_data: [TargetInfo.from_dict(d) for d in peek_json]
load_peek_data(js) ==
    [ok   |-> \A i \in 1..Len(js) : from_dict(js[i]).ok,
     data |-> [i \in 1..Len(js) |-> from_dict(js[i])]]

\* [rename_python_module(x, rename_map) for x in inferred_deps], the set
\* being iterated in the order `order`
RECURSIVE rename_each(_, _, _)
rename_each(order, st, tape) ==
    IF order = <<>>
    THEN [st |-> st, ret |-> <<>>]
    ELSE LET first == rename_python_module(order[1], st, tape)
             rest  == rename_each(Tail(order), first.st, tape)
         IN  [st |-> rest.st, ret |-> <<first.ret>> \o rest.ret]

\* set(info.dependencies).difference(info.dependencies_raw) without the difference
inferred_deps_keeps_raw(info) == Range(info.dependencies)

\* set(info.dependencies).difference(info.dependencies_raw)
inferred_deps(info) == Range(info.dependencies) \ Range(info.dependencies_raw)

\* the orders in which a set may be iterated
Orders(S) == {f \in [1..Cardinality(S) -> S] : Range(f) = S}

\* handle_python_module(info, target_type, rename_map); ok = FALSE when
\* render_imports raises
handle_python_module(info, target_type, st, tape, order) ==
    LET own          == rename_python_module(info.address.path, st, tape)
        new_address  == [info.address EXCEPT !.path = own.ret]
        renamed_deps == rename_each(order, own.st, tape)
        rendered     == render_imports(renamed_deps.ret)
        content      == Join(rendered.lines \o << <<>> >>, "\n")
    IN  [ok  |-> rendered.ok,
         st  |-> renamed_deps.st,
         twc |-> [address          |-> new_address,
                  target_type      |-> info.target_type,
                  dependencies     |-> renamed_deps.ret,
                  dependencies_raw |-> <<>>,
                  other            |-> info.other,
                  content          |-> content]]

\* the keys handle_python_module asks the RenameMap for, in order
RECURSIVE keys_of_each(_)
keys_of_each(order) ==
    IF order = <<>> THEN <<>>
    ELSE keys_of_path(order[1]) \o keys_of_each(Tail(order))

\* type_to_handler.keys() with python_test left out
relevant_types_source_only == {"python_source"}

\* type_to_handler.keys(); both types map to handle_python_module
relevant_types == {"python_source", "python_test"}

\* write_python_targets: path.write_text(twc.content) for each, in order; a
\* later write to the same path replaces the earlier text
RECURSIVE write_python_targets(_, _)
write_python_targets(out, fs) ==
    IF out = <<>> THEN fs
    ELSE LET path == out[1].address.path
         IN  write_python_targets(Tail(out),
                 [q \in (DOMAIN fs) \cup {path} |->
                     IF q = path THEN out[1].content ELSE fs[q]])

----------------------------------------------------------------------------
(* Driver of one run of main(): load, rename, write                        *)

MaxTargets == 2

\* names namesgenerator.get_random_name returns
GeneratedNames == {<<"X">>, <<"Y">>}

P_A == <<"p", "/", "a", ".", "p", "y">>
P_A_BARE == <<"p", "/", "a">>
P_B == <<"p", "/", "b", ".", "p", "y">>
Q_B == <<"q", "/", "b", ".", "p", "y">>
P_B_LIB == P_B \o <<":", "l", "i", "b">>
P_INIT == <<"p", "/">> \o DUNDER_INIT \o PY
P_MAIN == <<"p", "/">> \o DUNDER_MAIN \o PY
EMPTY == <<>>

Record(a, t, ds, raw, o) ==
    [address |-> a, target_type |-> t, dependencies |-> ds,
     dependencies_raw |-> raw, other |-> o]

PeekRecords ==
    { Record(P_A, "python_source", <<P_B, P_INIT>>, <<>>, "o1"),
      Record(P_B, "python_source", <<P_MAIN>>, <<>>, "o2"),
      Record(P_B_LIB, "python_test", <<P_A, P_B>>, <<P_A, Q_B>>, "o3"),
      Record(P_A, "python_test", <<P_B_LIB, P_B_LIB>>, <<>>, "o4"),
      Record(Q_B, "python_source", <<P_B, Q_B, EMPTY>>, <<Q_B>>, "o5"),
      Record(P_INIT, "python_source", <<P_B, Q_B>>, <<>>, "o6"),
      Record(Q_B, "resources", <<P_A>>, <<>>, "o7"),
      Record(P_A_BARE, "python_source", <<>>, <<>>, "o8"),
      Record(EMPTY, "python_source", <<>>, <<>>, "o9") }

PeekInputs == UNION {[1..n -> PeekRecords] : n \in 0..MaxTargets}

Init ==
    /\ pc = "load"
    /\ peek_json \in PeekInputs
    /\ peek_data = <<>>
    /\ idx = 0
    /\ renamed = <<>>
    /\ trace_log = <<>>
    /\ files = <<>>
    /\ _map = <<>> /\ gen_log = <<>> /\ call_log = <<>> /\ api_log = <<>>
    /\ AddressIdle /\ RenderIdle

\* peek_data = load_peek_data()
Load ==
    /\ pc = "load"
    /\ LET r == load_peek_data(peek_json)
       IN  IF r.ok
           THEN peek_data' = r.data /\ idx' = 1 /\ pc' = "rename"
           ELSE peek_data' = <<>> /\ idx' = 0 /\ pc' = "error"
    /\ UNCHANGED <<peek_json, renamed, trace_log, files, mapVars, api_log,
                   addressVars, renderVars>>

\* rename_python_targets: the next record's type is in type_to_handler
HandleTarget ==
    /\ pc = "rename"
    /\ idx <= Len(peek_data)
    /\ peek_data[idx].target_type \in relevant_types
    /\ LET ti == peek_data[idx]
       IN  \E order \in Orders(inferred_deps(ti)) :
           \E tape \in Oracles(keys_of_path(ti.address.path) \o keys_of_each(order),
                               _map, GeneratedNames) :
             LET r == handle_python_module(ti, ti.target_type, Now, tape, order)
             IN  /\ SetMap(r.st)
                 /\ IF r.ok
                    THEN /\ renamed' = Append(renamed, r.twc)
                         /\ trace_log' = Append(trace_log, [src |-> idx, kept |-> order])
                         /\ idx' = idx + 1
                         /\ pc' = "rename"
                    ELSE /\ renamed' = <<>>
                         /\ trace_log' = <<>>
                         /\ idx' = idx
                         /\ pc' = "error"
    /\ UNCHANGED <<peek_json, peek_data, files, api_log, addressVars, renderVars>>

\* rename_python_targets: the next record's type is not in type_to_handler
SkipTarget ==
    /\ pc = "rename"
    /\ idx <= Len(peek_data)
    /\ peek_data[idx].target_type \notin relevant_types
    /\ idx' = idx + 1
    /\ UNCHANGED <<pc, peek_json, peek_data, renamed, trace_log, files, mapVars,
                   api_log, addressVars, renderVars>>

\* rename_python_targets returns; write_python_targets(renamed)
WriteTargets ==
    /\ pc = "rename"
    /\ idx > Len(peek_data)
    /\ files' = write_python_targets(renamed, <<>>)
    /\ pc' = "exit"
    /\ UNCHANGED <<peek_json, peek_data, idx, renamed, trace_log, mapVars,
                   api_log, addressVars, renderVars>>

Next == Load \/ HandleTarget \/ SkipTarget \/ WriteTargets

Spec == Init /\ [][Next]_vars

\* the alias a line binds: its last word
AliasOf(line) == Last(Split(line, " "))

\* the module a line imports: the word before "as"
LeafOf(line) == LET w == Split(line, " ") IN w[Len(w) - 2]

----------------------------------------------------------------------------
(* Properties of the Address round trip (SpecAddress)                      *)

\* C9: for every string in canonical form (a string str() of an Address
\* produced), str(Address.from_str(s)) = s.  After the second pass prev_text
\* is the canonical string the first pass serialized and text is what parsing
\* and serializing it again gives.
C9_RoundTrip == (pc = "parse" /\ passes >= 2) => text = prev_text

----------------------------------------------------------------------------
(* Properties of render_imports (SpecRender)                               *)

\* C6: the import lines yielded for one target bind pairwise distinct
\* aliases, and the k-th yielded edge with a given leaf gets alias leaf + k.
C6_AliasesDistinct ==
    /\ \A i, j \in 1..Len(lines) :
          i # j => AliasOf(lines[i]) # AliasOf(lines[j])
    /\ \A i \in 1..Len(lines) :
          AliasOf(lines[i]) =
             LeafOf(lines[i]) \o
             IntToStr(Cardinality({j \in 1..i : LeafOf(lines[j]) = LeafOf(lines[i])}))

----------------------------------------------------------------------------
(* Properties of one RenameMap under any sequence of calls (SpecMap)       *)

Renames == {i \in 1..Len(api_log) : api_log[i].op = "rename"}

\* the directory components of a path: all but the last
Dirs(path) == Front(Split(path, "/"))

Prefix(s, k) == SubSeq(s, 1, k)

\* C3: two module paths renamed with the same RenameMap, whatever calls come
\* between them, whose first k directory components are equal give outputs
\* whose first k components are equal; and every output has as many
\* components as its input.
C3_StructurePreserved ==
    \A i, j \in Renames :
       LET a == api_log[i].arg
           b == api_log[j].arg
       IN  /\ Len(Split(api_log[i].ret, "/")) = Len(Split(a, "/"))
           /\ \A k \in 1..Min({Len(Dirs(a)), Len(Dirs(b))}) :
                 Prefix(Dirs(a), k) = Prefix(Dirs(b), k)
                 => Prefix(Split(api_log[i].ret, "/"), k)
                      = Prefix(Split(api_log[j].ret, "/"), k)

\* two different paths that share their first directory were renamed, with
\* another call between the two renames
C3_Witness ==
    \E i, j \in Renames :
       /\ i + 1 < j
       /\ api_log[i].arg # api_log[j].arg
       /\ Len(Dirs(api_log[i].arg)) >= 1 /\ Len(Dirs(api_log[j].arg)) >= 1
       /\ Dirs(api_log[i].arg)[1] = Dirs(api_log[j].arg)[1]

\* the keys of a log, in order
KeysOf(log) == [i \in 1..Len(log) |-> log[i].key]

\* a sequence without its repeated elements, first occurrences kept in order
RECURSIVE FirstSeen(_)
FirstSeen(s) ==
    IF s = <<>> THEN <<>>
    ELSE LET f == FirstSeen(Front(s))
         IN  IF Last(s) \in Range(f) THEN f ELSE Append(f, Last(s))

\* C4 (state part): a key asked for twice got the same pseudonym both times,
\* which is the one the map holds; gen_name() ran exactly once per distinct
\* key, in first-seen order.
C4_Memoized ==
    /\ \A i, j \in 1..Len(call_log) :
          call_log[i].key = call_log[j].key => call_log[i].ret = call_log[j].ret
    /\ \A i \in 1..Len(call_log) :
          /\ call_log[i].key \in DOMAIN _map
          /\ _map[call_log[i].key] = call_log[i].ret
    /\ KeysOf(gen_log) = FirstSeen(KeysOf(call_log))
    /\ DOMAIN _map = Range(KeysOf(gen_log))

\* C4 (step part): no call changes or removes an entry the map holds
C4_EntriesKept ==
    \A k \in DOMAIN _map : k \in DOMAIN _map' /\ _map'[k] = _map[k]

\* C4: RenameMap memoization over any sequence of assign_name and assign_many
\* calls: an assigned entry is never changed or removed, every later call
\* with that key returns it, and the generator runs once per distinct key, in
\* first-seen order.
C4_Memoization == [](C4_Memoized) /\ [][C4_EntriesKept]_vars

\* a key was asked for again after its first assignment, with other keys
\* assigned in between
C4_Witness ==
    \E i, j \in 1..Len(call_log) :
       /\ i + 1 < j
       /\ call_log[i].key = call_log[j].key
       /\ call_log[i + 1].key # call_log[i].key
       /\ Len(gen_log) >= 2

\* the assumption of C10: the generator returned pairwise distinct
\* pseudonyms, none of them __init__ or __main__
GeneratorInjective ==
    /\ \A i, j \in 1..Len(gen_log) : i # j => gen_log[i].name # gen_log[j].name
    /\ \A i \in 1..Len(gen_log) : gen_log[i].name \notin ReservedLeaves

\* C10 as claimed: under that assumption any two distinct input module paths
\* renamed with the same RenameMap give distinct output paths.
C10_DistinctPaths ==
    GeneratorInjective =>
       \A i, j \in Renames :
          api_log[i].arg # api_log[j].arg => api_log[i].ret # api_log[j].ret

\* C10 as amended: under that assumption any two input module paths that
\* still differ after one trailing ".py" is removed give distinct output
\* paths.
C10_DistinctStrippedPaths ==
    GeneratorInjective =>
       \A i, j \in Renames :
          RemoveSuffix(api_log[i].arg, PY) # RemoveSuffix(api_log[j].arg, PY)
          => api_log[i].ret # api_log[j].ret

\* two paths over the same two keys, different after stripping, were renamed
\* by an injective generator
C10_Witness ==
    /\ GeneratorInjective
    /\ Len(gen_log) >= 2
    /\ \E i, j \in Renames :
          /\ RemoveSuffix(api_log[i].arg, PY) # RemoveSuffix(api_log[j].arg, PY)
          /\ Range(keys_of_path(api_log[i].arg)) = Range(keys_of_path(api_log[j].arg))

----------------------------------------------------------------------------
(* Properties of one run of the pipeline (Spec)                            *)

\* the maximal non-empty runs of s between characters of seps
RECURSIVE Runs(_, _)
Runs(s, seps) ==
    LET cut == {i \in 1..Len(s) : s[i] \in seps}
    IN  IF s = <<>> THEN {}
        ELSE IF cut = {} THEN {s}
        ELSE (IF Min(cut) > 1 THEN {SubSeq(s, 1, Min(cut) - 1)} ELSE {})
             \cup Runs(From(s, Min(cut) + 1), seps)

\* the names an address-like string is made of: its path components (the
\* module suffix dropped), its target name and its subtarget
NamesIn(s) == {RemoveSuffix(t, PY) : t \in Runs(s, {"/", ":", "#"})}

\* the names the input holds, the reserved leaves apart
OriginalNames ==
    UNION { NamesIn(peek_json[i].address)
            \cup UNION {NamesIn(d) : d \in Range(peek_json[i].dependencies)}
            \cup UNION {NamesIn(d) : d \in Range(peek_json[i].dependencies_raw)}
          : i \in 1..Len(peek_json) } \ ReservedLeaves

\* the names the anonymized part of an output record holds
OutputNames(twc) ==
    NamesIn(address_str(twc.address))
    \cup UNION {NamesIn(d) : d \in Range(twc.dependencies)}
    \cup Runs(twc.content, {" ", ".", "\n"})

\* C1: with a generator that never returns a string of the input, no output
\* record holds an original name in its serialized address, its dependencies
\* or its content, the reserved leaves apart.
C1_Scrubbed ==
    \A j \in 1..Len(renamed) : OutputNames(renamed[j]) \cap OriginalNames = {}

\* the input record an output record was made from
SourceOf(j) == peek_data[trace_log[j].src]

\* C2: if a kept dependency d of target T denotes target U's input address,
\* the renamed d in T's output identifies U's output address: its path part
\* is U's renamed path.
C2_EdgesFollowTargets ==
    \A t, u \in 1..Len(renamed) :
       \A k \in 1..Len(trace_log[t].kept) :
          LET d == trace_log[t].kept[k]
          IN  (t # u /\ from_str(d).ok /\ from_str(d) = SourceOf(u).address)
              => from_str(renamed[t].dependencies[k]).path = renamed[u].address.path

\* the renamed form of edge d under the map m: each component replaced by
\* its pseudonym, a reserved leaf kept
RenamedForm(d, m) ==
    LET parts == path_parts_of(d)
    IN  Join([i \in 1..Len(parts) |->
                IF i = Len(parts) /\ parts[i] \in ReservedLeaves
                THEN parts[i] ELSE m[parts[i]]], "/") \o PY

\* the lines of a content: the text before each newline
LinesOf(content) == Front(Split(content, "\n"))

\* the leaf of an edge
LeafOfEdge(d) == Last(path_parts_of(d))

\* the positions of the edges of a sequence that give an import line
Importable(ds) == {k \in 1..Len(ds) : LeafOfEdge(ds[k]) # DUNDER_INIT}

\* the start of the import line of a renamed edge, up to its alias
ImportHead(dep) ==
    LET parts == path_parts_of(dep)
    IN  IF Len(parts) > 1
        THEN KW_FROM \o Join(Front(parts), ".") \o <<" ">> \o KW_IMPORT
             \o Last(parts) \o KW_AS
        ELSE KW_IMPORT \o Last(parts) \o KW_AS

\* the k-th smallest element of a set of numbers
RECURSIVE Kth(_, _)
Kth(S, k) == IF k = 1 THEN Min(S) ELSE Kth(S \ {Min(S)}, k - 1)

\* C5: the output dependencies are the renamed forms of the edges of
\* dependencies that are not in dependencies_raw, each distinct edge once; the
\* output dependencies_raw is empty; content holds exactly one import line per
\* kept edge whose leaf is not __init__, in the order of the output
\* dependencies, and no other line.
C5_DependencyFiltering ==
    \A j \in 1..Len(renamed) :
       LET out   == renamed[j]
           ti    == SourceOf(j)
           kept  == {d \in Range(ti.dependencies) : d \notin Range(ti.dependencies_raw)}
           order == trace_log[j].kept
           imp   == Importable(order)
           ls    == LinesOf(out.content)
       IN  /\ Range(order) = kept
           /\ Len(out.dependencies) = Cardinality(kept)
           /\ \A k \in 1..Len(out.dependencies) :
                 out.dependencies[k] = RenamedForm(order[k], _map)
           /\ out.dependencies_raw = <<>>
           /\ Len(ls) = Cardinality(imp)
           /\ \A n \in 1..Len(ls) :
                 LET head == ImportHead(out.dependencies[Kth(imp, n)])
                 IN  Len(ls[n]) > Len(head) /\ Prefix(ls[n], Len(head)) = head

\* an output was made from a target whose dependencies_raw is not a subset of
\* its dependencies and which keeps an edge; another from a target that keeps
\* an __init__ edge beside an importable one
C5_Witness ==
    /\ \E j \in 1..Len(renamed) :
          /\ ~(Range(SourceOf(j).dependencies_raw) \subseteq Range(SourceOf(j).dependencies))
          /\ Range(SourceOf(j).dependencies_raw) \cap Range(SourceOf(j).dependencies) # {}
          /\ renamed[j].dependencies # <<>>
          /\ renamed[j].content # <<>>
    /\ \E j \in 1..Len(renamed) :
          /\ Importable(trace_log[j].kept) # {}
          /\ Importable(trace_log[j].kept) # 1..Len(trace_log[j].kept)

\* C7: once an eligible target that keeps an empty-string edge has been
\* handled, the run has failed: there is no output record for it.
C7_EmptyEdgeFails ==
    \A i \in 1..Len(peek_data) :
       ( /\ i < idx
         /\ peek_data[i].target_type \in {"python_source", "python_test"}
         /\ EMPTY \in Range(peek_data[i].dependencies)
         /\ EMPTY \notin Range(peek_data[i].dependencies_raw) )
       => pc = "error"

\* the positions of the eligible records among the first n
EligibleUpTo(n) ==
    {i \in 1..n : peek_data[i].target_type \in {"python_source", "python_test"}}

\* the keys the handler of record i asks the RenameMap for
KeysAskedBy(i) ==
    Range(keys_of_path(peek_data[i].address.path))
    \cup UNION { Range(keys_of_path(d)) :
                 d \in Range(peek_data[i].dependencies)
                       \ Range(peek_data[i].dependencies_raw) }

\* C8: the output holds exactly one record per input record whose type is in
\* the handler table, in input order, with the input's target_type and other;
\* records of other types give no output and no error and put no key in the
\* RenameMap.
C8_PipelineShape ==
    (pc \in {"rename", "exit"}) =>
       LET done == IF pc = "exit" THEN Len(peek_data) ELSE idx - 1
           E    == EligibleUpTo(done)
       IN  /\ pc = "exit" => idx = Len(peek_data) + 1
           /\ Len(renamed) = Cardinality(E)
           /\ \A j \in 1..Len(renamed) :
                 /\ trace_log[j].src = Kth(E, j)
                 /\ renamed[j].target_type = peek_data[Kth(E, j)].target_type
                 /\ renamed[j].other = peek_data[Kth(E, j)].other
           /\ DOMAIN _map = UNION {KeysAskedBy(i) : i \in E}

\* a run ended whose input held a record of another type before an eligible
\* one, whose keys the map does not hold
C8_Witness ==
    /\ pc = "exit"
    /\ Len(peek_data) = 2
    /\ peek_data[1].target_type = "resources"
    /\ peek_data[2].target_type = "python_test"
    /\ Len(renamed) = 1
    /\ ~(KeysAskedBy(1) \subseteq DOMAIN _map)

====
